---- MODULE Spec2Model ----
(***************************************************************************)
(* A model of DataAnalystAgent (agent.py): the three content slots, the    *)
(* analysis history, and the four operations load_document,                *)
(* get_data_summary, create_visualizations and answer_question; and of the *)
(* chat tab of the app (app.py) that calls answer_question.                *)
(*                                                                         *)
(* Python values are modelled as follows.  None is the record None; a str  *)
(* held in a slot that may also be None is wrapped as Str(s); a DataFrame  *)
(* is a record of its column names, their dtypes and its rows, every cell  *)
(* in its display form (a missing cell is NaN).  Strings are TLA+ strings, *)
(* so that slicing, joining and formatting are computed, not assumed.      *)
(***************************************************************************)
EXTENDS Naturals, Sequences, FiniteSets, TLC

VARIABLES
    data,              \* self.data: None or a DataFrame
    text_content,      \* self.text_content: None or Str(s)
    image_content,     \* self.image_content: None or Str(base64)
    analysis_history,  \* self.analysis_history: sequence of records
    call,              \* the operation called last, with its arguments
    result,            \* what that call returned
    request,           \* the messages that call handed to the completion service
    loaded,            \* history variable: the document of the last successful load
    answered,          \* history variable: number of answer_question calls that returned an answer
    session_messages   \* st.session_state.messages of the app: the turns of the chat

vars == <<data, text_content, image_content, analysis_history,
          call, result, request, loaded, answered, session_messages>>

----------------------------------------------------------------------------
(* Bounds of the model.                                                    *)

MaxHistory == 2   \* answer_question is not called once the history holds this many records
MaxTurns == 2     \* longest caller-supplied chat history (SpecChat)
MaxCols == 3      \* widest generated table (SpecViz)
MaxPrompts == 3   \* prompts submitted in one chat session (SpecApp)

----------------------------------------------------------------------------
(* Python values.                                                          *)

None == [tag |-> "None"]
Str(s) == [tag |-> "str", s |-> s]
IsNone(v) == v.tag = "None"
\* Python truthiness of a slot holding None or a str
Truthy(v) == v.tag = "str" /\ v.s # ""

Min(a, b) == IF a < b THEN a ELSE b
SetMax(S) == CHOOSE m \in S : \A x \in S : x <= m

Char(s, i) == SubSeq(s, i, i)
\* s[:n]
Prefix(s, n) == SubSeq(s, 1, Min(n, Len(s)))
\* s[i-1:] for a 1-based position i
Suffix(s, i) == SubSeq(s, i, Len(s))

\* 0 when c does not occur in s, else the 1-based position of its last occurrence
LastIndexOf(s, c) ==
    LET I == {i \in 1..Len(s) : Char(s, i) = c}
    IN  IF I = {} THEN 0 ELSE SetMax(I)

IndexOf(s, c) ==
    LET I == {i \in 1..Len(s) : Char(s, i) = c}
    IN  IF I = {} THEN 0 ELSE CHOOSE i \in I : \A j \in I : i <= j

UpperCase == "ABCDEFGHIJKLMNOPQRSTUVWXYZ"
LowerCase == "abcdefghijklmnopqrstuvwxyz"

\* the lower-case letter of every upper-case letter
LowerOf == [c \in {Char(UpperCase, k) : k \in 1..Len(UpperCase)} |->
                Char(LowerCase, IndexOf(UpperCase, c))]

\* LowerChar that leaves every character as it is
LowerChar_Identity(c) == c

LowerChar(c) == IF c \in DOMAIN LowerOf THEN LowerOf[c] ELSE c

RECURSIVE Lower(_)
\* str.lower()
Lower(s) == IF s = "" THEN "" ELSE LowerChar(Char(s, 1)) \o Lower(Suffix(s, 2))

RECURSIVE Join(_, _)
\* sep.join(parts)
Join(parts, sep) ==
    IF Len(parts) = 0 THEN ""
    ELSE IF Len(parts) = 1 THEN parts[1]
    ELSE parts[1] \o sep \o Join(Tail(parts), sep)

IsSpace(c) == c \in {" ", "\n", "\t", "\r"}

\* len(s.split()): the number of maximal runs of non-whitespace characters
WordCount(s) ==
    Cardinality({i \in 1..Len(s) :
        /\ ~IsSpace(Char(s, i))
        /\ (i = 1 \/ IsSpace(Char(s, i - 1)))})

\* os.path.splitext(p)[1]: the last dot of the last path component and what
\* follows it, unless only dots precede it in that component
SplitExt(p) ==
    LET sep == LastIndexOf(p, "/")
        dot == LastIndexOf(p, ".")
    IN  IF dot > sep /\ \E i \in (sep + 1)..(dot - 1) : Char(p, i) # "."
        THEN Suffix(p, dot)
        ELSE ""

B64Chars == "ABCDEFGHIJKLMNOPQRSTUVWXYZabcdefghijklmnopqrstuvwxyz0123456789+/"
B64Char(n) == Char(B64Chars, n + 1)

RECURSIVE B64Encode(_)
\* base64.b64encode(bytes).decode('utf-8')
B64Encode(bs) ==
    IF Len(bs) = 0 THEN ""
    ELSE IF Len(bs) = 1 THEN
        B64Char(bs[1] \div 4) \o B64Char((bs[1] % 4) * 16) \o "=="
    ELSE IF Len(bs) = 2 THEN
        B64Char(bs[1] \div 4) \o B64Char((bs[1] % 4) * 16 + bs[2] \div 16)
            \o B64Char((bs[2] % 16) * 4) \o "="
    ELSE
        B64Char(bs[1] \div 4) \o B64Char((bs[1] % 4) * 16 + bs[2] \div 16)
            \o B64Char((bs[2] % 16) * 4 + bs[3] \div 64) \o B64Char(bs[3] % 64)
            \o B64Encode(SubSeq(bs, 4, Len(bs)))

----------------------------------------------------------------------------
(* DataFrames (pandas), as far as the agent uses them.                     *)

HeadRows == 5     \* DataFrame.head() keeps the first five rows
NaN == "NaN"

DataFrame(columns, dtypes, rows) ==
    [tag |-> "DataFrame", columns |-> columns, dtypes |-> dtypes, rows |-> rows]

\* df.shape
Shape(df) == <<Len(df.rows), Len(df.columns)>>

\* df.head()
Head5(df) == [df EXCEPT !.rows = SubSeq(df.rows, 1, Min(HeadRows, Len(df.rows)))]

ColumnSet(df) == {df.columns[i] : i \in 1..Len(df.columns)}
ColumnIndex(df, c) == CHOOSE i \in 1..Len(df.columns) : df.columns[i] = c

\* df.isnull().sum().to_dict()
MissingValues(df) ==
    [c \in ColumnSet(df) |->
        Cardinality({r \in 1..Len(df.rows) : df.rows[r][ColumnIndex(df, c)] = NaN})]

\* df.dtypes.apply(lambda x: str(x)).to_dict()
Dtypes(df) == [c \in ColumnSet(df) |-> df.dtypes[ColumnIndex(df, c)]]

\* df.to_dict(orient='records')
ToRecords(df) ==
    [r \in 1..Len(df.rows) |-> [c \in ColumnSet(df) |-> df.rows[r][ColumnIndex(df, c)]]]

\* the dtypes np.number covers
IsNumeric(dtype) == dtype \in {"int64", "float64"}

\* df.select_dtypes(include=np.number).columns.tolist(): source column order kept
NumericCols(df) ==
    LET idx == SelectSeq([i \in 1..Len(df.columns) |-> i],
                         LAMBDA i : IsNumeric(df.dtypes[i]))
    IN  [k \in 1..Len(idx) |-> df.columns[idx[k]]]

\* df.to_string(): a header line, then one line per row led by its index
\* (the padding pandas adds to align the columns is left out)
ToStringDF(df) ==
    IF Len(df.rows) = 0
    THEN "Empty DataFrame\nColumns: [" \o Join(df.columns, ", ") \o "]\nIndex: []"
    ELSE Join(<<Join(<<"">> \o df.columns, " ")>>
              \o [r \in 1..Len(df.rows) |->
                    Join(<<ToString(r - 1)>> \o df.rows[r], " ")],
              "\n")

\* str(df.shape)
ShapeStr(df) == "(" \o ToString(Len(df.rows)) \o ", " \o ToString(Len(df.columns)) \o ")"

----------------------------------------------------------------------------
(* Files, and the library calls that read them.  A file is what the disk   *)
(* holds at a path: its kind, its parsed content, and the message of the   *)
(* exception a reader raises on it when it cannot read it.                 *)

File(kind, content) == [kind |-> kind, content |-> content, error |-> "not a " \o kind \o " file"]
BadFile(error) == [kind |-> "unreadable", content |-> None, error |-> error]

Raise(message) == [raised |-> TRUE, message |-> message]
Return(value) == [raised |-> FALSE, value |-> value]

\* a reader succeeds on a file of its own kind and raises on any other
Read(kind, file) ==
    IF file.kind = kind THEN Return(file.content) ELSE Raise(file.error)

\* pd.read_csv(file_path)
read_csv(file) == Read("csv", file)
\* pd.read_excel(file_path)
read_excel(file) == Read("xlsx", file)
\* open(file_path, 'r', encoding='utf-8').read()
read_text(file) == Read("txt", file)
\* Document(file_path).paragraphs, each paragraph's text
read_docx(file) == Read("docx", file)
\* PdfReader(file_path).pages, each page's extract_text()
read_pdf(file) == Read("pdf", file)
\* open(file_path, 'rb').read()
read_bytes(file) == Read("image", file)

----------------------------------------------------------------------------
(* DataAnalystAgent.                                                       *)

Store == <<data, text_content, image_content>>

\* Loaded with the document replacing whatever the store held
Loaded_Replace(slot, value, message) ==
    [data |-> IF slot = "data" THEN value ELSE None,
     text_content |-> IF slot = "text_content" THEN value ELSE None,
     image_content |-> IF slot = "image_content" THEN value ELSE None,
     wrote |-> slot,
     ret |-> [status |-> "success", message |-> message]]

\* what load_document leaves behind: the three slots, the returned dict, and
\* the slot it assigned ("" when it assigned none)
Loaded(slot, value, message) ==
    [data |-> IF slot = "data" THEN value ELSE data,
     text_content |-> IF slot = "text_content" THEN value ELSE text_content,
     image_content |-> IF slot = "image_content" THEN value ELSE image_content,
     wrote |-> slot,
     ret |-> [status |-> "success", message |-> message]]

\* NotLoaded with the slots reset before the dispatch
NotLoaded_Reset(message) ==
    [data |-> None, text_content |-> None, image_content |-> None,
     wrote |-> "",
     ret |-> [status |-> "error", message |-> message]]

NotLoaded(message) ==
    [data |-> data, text_content |-> text_content, image_content |-> image_content,
     wrote |-> "",
     ret |-> [status |-> "error", message |-> message]]

\* the except clause of load_document
LoadFailed(e) == NotLoaded("Error loading file: " \o e.message)

load_document(file_path, file) ==
    LET ext == Lower(SplitExt(file_path))
    IN  IF ext \in {".csv", ".xlsx"} THEN
            LET r == IF ext = ".csv" THEN read_csv(file) ELSE read_excel(file)
            IN  IF r.raised THEN LoadFailed(r)
                ELSE Loaded("data", r.value,
                            "Data loaded successfully. Shape: " \o ShapeStr(r.value))
        ELSE IF ext = ".txt" THEN
            LET r == read_text(file)
            IN  IF r.raised THEN LoadFailed(r)
                ELSE Loaded("text_content", Str(r.value), "Text file loaded successfully.")
        ELSE IF ext = ".docx" THEN
            LET r == read_docx(file)
            IN  IF r.raised THEN LoadFailed(r)
                ELSE Loaded("text_content", Str(Join(r.value, "\n")),
                            "DOCX file loaded successfully.")
        ELSE IF ext = ".pdf" THEN
            LET r == read_pdf(file)
            IN  IF r.raised THEN LoadFailed(r)
                ELSE Loaded("text_content",
                            Str(Join(SelectSeq(r.value, LAMBDA t : t # ""), "\n")),
                            "PDF file loaded successfully.")
        ELSE IF ext \in {".png", ".jpg", ".jpeg"} THEN
            LET r == read_bytes(file)
            IN  IF r.raised THEN LoadFailed(r)
                ELSE Loaded("image_content", Str(B64Encode(r.value)),
                            "Image file loaded successfully.")
        ELSE NotLoaded("Unsupported file type.")

PreviewChars == 500

\* Summary with the slots tested for truth, as answer_question tests them
Summary_Truthy(d, t, i) ==
    IF ~IsNone(d) THEN
        [type |-> "structured",
         shape |-> Shape(d),
         missing_values |-> MissingValues(d),
         dtypes |-> Dtypes(d),
         sample_data |-> ToRecords(Head5(d))]
    ELSE IF Truthy(t) THEN
        [type |-> "text",
         length |-> Len(t.s),
         word_count |-> WordCount(t.s),
         preview |-> Prefix(t.s, PreviewChars)]
    ELSE IF Truthy(i) THEN
        [type |-> "image",
         message |-> "Image summary is not available. Ask questions about the image content."]
    ELSE [error |-> "No data loaded."]

\* get_data_summary on the slots d, t, i
\* Summary with the text slot looked at before the table
Summary_TextFirst(d, t, i) ==
    IF ~IsNone(t) THEN
        [type |-> "text",
         length |-> Len(t.s),
         word_count |-> WordCount(t.s),
         preview |-> Prefix(t.s, PreviewChars)]
    ELSE IF ~IsNone(d) THEN
        [type |-> "structured",
         shape |-> Shape(d),
         missing_values |-> MissingValues(d),
         dtypes |-> Dtypes(d),
         sample_data |-> ToRecords(Head5(d))]
    ELSE IF ~IsNone(i) THEN
        [type |-> "image",
         message |-> "Image summary is not available. Ask questions about the image content."]
    ELSE [error |-> "No data loaded."]

Summary(d, t, i) ==
    IF ~IsNone(d) THEN
        [type |-> "structured",
         shape |-> Shape(d),
         missing_values |-> MissingValues(d),
         dtypes |-> Dtypes(d),
         sample_data |-> ToRecords(Head5(d))]
    ELSE IF ~IsNone(t) THEN
        [type |-> "text",
         length |-> Len(t.s),
         word_count |-> WordCount(t.s),
         preview |-> Prefix(t.s, PreviewChars)]
    ELSE IF ~IsNone(i) THEN
        [type |-> "image",
         message |-> "Image summary is not available. Ask questions about the image content."]
    ELSE [error |-> "No data loaded."]

get_data_summary == Summary(data, text_content, image_content)

Histogram(df, col) ==
    [title |-> "Histogram of " \o col,
     figure |-> [kind |-> "histogram", frame |-> df, x |-> col,
                 title |-> "Histogram of " \o col],
     insights |-> "This histogram shows the distribution of " \o col \o "."]

Scatter(df, x_col, y_col) ==
    [title |-> "Scatter Plot: " \o x_col \o " vs " \o y_col,
     figure |-> [kind |-> "scatter", frame |-> df, x |-> x_col, y |-> y_col,
                 title |-> "Scatter Plot: " \o x_col \o " vs " \o y_col],
     insights |-> "This scatter plot shows the relationship between "
                  \o x_col \o " and " \o y_col \o "."]

\* Visualizations with the scatter drawn against the last numeric column
Visualizations_LastColumn(d) ==
    IF IsNone(d) THEN <<[error |-> "No data loaded for visualization."]>>
    ELSE LET numeric_cols == NumericCols(d)
         IN  IF Len(numeric_cols) = 0
             THEN <<[error |-> "No numeric columns to visualize."]>>
             ELSE <<Histogram(d, numeric_cols[1])>>
                  \o
                  (IF Len(numeric_cols) > 1
                   THEN <<Scatter(d, numeric_cols[1], numeric_cols[Len(numeric_cols)])>>
                   ELSE <<>>)

\* Visualizations without the check for no numeric columns
Visualizations_NoCheck(d) ==
    IF IsNone(d) THEN <<[error |-> "No data loaded for visualization."]>>
    ELSE LET numeric_cols == NumericCols(d)
         IN  (IF Len(numeric_cols) > 0
              THEN <<Histogram(d, numeric_cols[1])>> ELSE <<>>)
             \o
             (IF Len(numeric_cols) > 1
              THEN <<Scatter(d, numeric_cols[1], numeric_cols[2])>> ELSE <<>>)

\* create_visualizations on the slot d
Visualizations(d) ==
    IF IsNone(d) THEN <<[error |-> "No data loaded for visualization."]>>
    ELSE LET numeric_cols == NumericCols(d)
         IN  IF Len(numeric_cols) = 0
             THEN <<[error |-> "No numeric columns to visualize."]>>
             ELSE (IF Len(numeric_cols) > 0
                   THEN <<Histogram(d, numeric_cols[1])>> ELSE <<>>)
                  \o
                  (IF Len(numeric_cols) > 1
                   THEN <<Scatter(d, numeric_cols[1], numeric_cols[2])>> ELSE <<>>)

create_visualizations == Visualizations(data)

ContextChars == 1000

\* ContextOf with the test of the image slot inverted
ContextOf_ImageInverted(d, t, i) ==
    (IF ~IsNone(d)
     THEN "Dataset Info: " \o ToStringDF(Head5(d)) \o "\nShape: " \o ShapeStr(d) \o "\n"
     ELSE "")
    \o
    (IF Truthy(t)
     THEN "Text Content: " \o Prefix(t.s, ContextChars) \o "...\n"
     ELSE "")
    \o
    (IF ~Truthy(i)
     THEN "Image content is available but cannot be displayed in text form.\n"
     ELSE "")

\* the context answer_question assembles from the slots d, t, i
ContextOf(d, t, i) ==
    (IF ~IsNone(d)
     THEN "Dataset Info: " \o ToStringDF(Head5(d)) \o "\nShape: " \o ShapeStr(d) \o "\n"
     ELSE "")
    \o
    (IF Truthy(t)
     THEN "Text Content: " \o Prefix(t.s, ContextChars) \o "...\n"
     ELSE "")
    \o
    (IF Truthy(i)
     THEN "Image content is available but cannot be displayed in text form.\n"
     ELSE "")

Context == ContextOf(data, text_content, image_content)

\* a list argument that may be None
List(items) == [tag |-> "list", items |-> items]

FinalTurn(context, question) ==
    [role |-> "user", content |-> "Context: " \o context \o "\nQuestion: " \o question]

\* Messages with the final turn put before the history
Messages_FinalFirst(context, question, chat_history) ==
    <<[role |-> "user", content |-> "Context: " \o context \o "\nQuestion: " \o question]>>
    \o
    (IF chat_history.tag = "list" /\ Len(chat_history.items) > 0
     THEN [k \in 1..Len(chat_history.items) |->
            [role |-> chat_history.items[k].role,
             content |-> chat_history.items[k].content]]
     ELSE <<>>)

\* the messages answer_question builds
Messages(context, question, chat_history) ==
    (IF chat_history.tag = "list" /\ Len(chat_history.items) > 0
     THEN [k \in 1..Len(chat_history.items) |->
            [role |-> chat_history.items[k].role,
             content |-> chat_history.items[k].content]]
     ELSE <<>>)
    \o <<FinalTurn(context, question)>>

MaxTokens == 1000
Model == "meta-llama/Llama-4-Maverick-17B-128E-Instruct-FP8"

Request(messages) ==
    [tag |-> "request", model |-> Model, messages |-> messages, max_tokens |-> MaxTokens]

CouldNotParse == "Error: Could not parse LLM response."

\* LlmAnswer without the substitution of the sentinel
LlmAnswer_NoSentinel(response) ==
    LET choices == response.choices
        message == IF choices.tag = "list" /\ Len(choices.items) > 0
                   THEN choices.items[1].message ELSE None
        content == IF ~IsNone(message) THEN message.content ELSE None
    IN  IF Truthy(content) THEN content.s ELSE ""

\* the answer answer_question reads out of a response
LlmAnswer(response) ==
    LET choices == response.choices
        message == IF choices.tag = "list" /\ Len(choices.items) > 0
                   THEN choices.items[1].message ELSE None
        content == IF ~IsNone(message) THEN message.content ELSE None
        llm_answer == IF Truthy(content) THEN content.s ELSE ""
    IN  IF llm_answer = "" THEN CouldNotParse ELSE llm_answer

\* Record that stores the answer where the context belongs
Record_AnswerAsContext(question, answer, context) ==
    [question |-> question, answer |-> answer, context |-> answer]

Record(question, answer, context) ==
    [question |-> question, answer |-> answer, context |-> context]

\* an exception that leaves the operation uncaught, in place of a returned value
Escaped(exception) == [exception |-> exception]

\* the key whose lookup raises KeyError while the chat history is copied
\* before the try block: that of the first turn lacking 'role' or 'content'
\* ("" when every turn has both)
MissingKey(chat_history) ==
    IF chat_history.tag # "list" THEN ""
    ELSE LET bad == {k \in 1..Len(chat_history.items) :
                        {"role", "content"} \ DOMAIN chat_history.items[k] # {}}
         IN  IF bad = {} THEN ""
             ELSE LET k == CHOOSE i \in bad : \A j \in bad : i <= j
                  IN  IF "role" \notin DOMAIN chat_history.items[k]
                      THEN "role" ELSE "content"

\* answer_question that keeps a sentinel answer out of the history
answer_question_SentinelNotLogged(question, chat_history, reply) ==
    LET context == Context
        messages == Messages(context, question, chat_history)
    IN  IF reply.raised
        THEN [analysis_history |-> analysis_history,
              messages |-> messages,
              ret |-> [error |-> "Error answering question: " \o reply.message]]
        ELSE LET llm_answer == LlmAnswer(reply.value)
             IN  [analysis_history |->
                     IF llm_answer = CouldNotParse THEN analysis_history
                     ELSE Append(analysis_history, Record(question, llm_answer, context)),
                  messages |-> messages,
                  ret |-> [llm_answer |-> llm_answer,
                           quantitative_answer |->
                               [details |-> "No specific quantitative data extracted."]]]

\* answer_question that assigns the history instead of appending to it
answer_question_KeepsLast(question, chat_history, reply) ==
    LET context == Context
        messages == Messages(context, question, chat_history)
    IN  IF reply.raised
        THEN [analysis_history |-> analysis_history,
              messages |-> messages,
              ret |-> [error |-> "Error answering question: " \o reply.message]]
        ELSE LET llm_answer == LlmAnswer(reply.value)
             IN  [analysis_history |-> <<Record(question, llm_answer, context)>>,
                  messages |-> messages,
                  ret |-> [llm_answer |-> llm_answer,
                           quantitative_answer |->
                               [details |-> "No specific quantitative data extracted."]]]

\* answer_question, given what self.client.chat.completions.create does with
\* the request (reply: Raise(message) or Return(response)): the history it
\* leaves, the messages it sent and the dict it returns, or the exception
\* that escapes it
answer_question(question, chat_history, reply) ==
    LET context == Context
        messages == Messages(context, question, chat_history)
    IN  IF MissingKey(chat_history) # ""
        THEN [analysis_history |-> analysis_history,
              messages |-> <<>>,
              ret |-> Escaped("KeyError: '" \o MissingKey(chat_history) \o "'")]
        ELSE IF reply.raised
        THEN [analysis_history |-> analysis_history,
              messages |-> messages,
              ret |-> [error |-> "Error answering question: " \o reply.message]]
        ELSE LET llm_answer == LlmAnswer(reply.value)
             IN  [analysis_history |->
                     Append(analysis_history, Record(question, llm_answer, context)),
                  messages |-> messages,
                  ret |-> [llm_answer |-> llm_answer,
                           quantitative_answer |->
                               [details |-> "No specific quantitative data extracted."]]]

----------------------------------------------------------------------------
(* The operations as actions.  Each records the call and what it returned. *)

Init ==
    /\ data = None
    /\ text_content = None
    /\ image_content = None
    /\ analysis_history = <<>>
    /\ call = [op |-> "__init__"]
    /\ result = None
    /\ request = None
    /\ loaded = None
    /\ answered = 0
    /\ session_messages = <<>>

\* load_document has returned out
LoadDocumentReturns(file_path, out) ==
    /\ data' = out.data
    /\ text_content' = out.text_content
    /\ image_content' = out.image_content
    /\ call' = [op |-> "load_document", file_path |-> file_path]
    /\ result' = out.ret
    /\ request' = None
    /\ loaded' = IF out.ret.status = "success"
                 THEN [tag |-> "document", slot |-> out.wrote, value |-> out[out.wrote]]
                 ELSE loaded
    /\ UNCHANGED <<analysis_history, answered, session_messages>>

LoadDocument(file_path, file) ==
    LoadDocumentReturns(file_path, load_document(file_path, file))

\* GetDataSummary that hands the document over and empties the store
GetDataSummary_Consumes ==
    /\ call' = [op |-> "get_data_summary"]
    /\ result' = get_data_summary
    /\ request' = None
    /\ data' = None
    /\ text_content' = None
    /\ image_content' = None
    /\ UNCHANGED <<analysis_history, loaded, answered, session_messages>>

GetDataSummary ==
    /\ call' = [op |-> "get_data_summary"]
    /\ result' = get_data_summary
    /\ request' = None
    /\ UNCHANGED <<data, text_content, image_content, analysis_history, loaded, answered,
                   session_messages>>

CreateVisualizations ==
    /\ call' = [op |-> "create_visualizations"]
    /\ result' = create_visualizations
    /\ request' = None
    /\ UNCHANGED <<data, text_content, image_content, analysis_history, loaded, answered,
                   session_messages>>

\* answer_question has returned out
AnswerQuestionReturns(question, chat_history, reply, out) ==
    /\ analysis_history' = out.analysis_history
    /\ call' = [op |-> "answer_question", question |-> question,
                chat_history |-> chat_history, reply |-> reply]
    /\ result' = out.ret
    /\ request' = IF "exception" \in DOMAIN out.ret
                  THEN None ELSE Request(out.messages)
    /\ answered' = IF "llm_answer" \in DOMAIN out.ret
                   THEN answered + 1 ELSE answered
    /\ UNCHANGED <<data, text_content, image_content, loaded>>

AnswerQuestion(question, chat_history, reply) ==
    /\ Len(analysis_history) < MaxHistory
    /\ AnswerQuestionReturns(question, chat_history, reply,
                             answer_question(question, chat_history, reply))
    /\ UNCHANGED session_messages

\* safe_answer_question: what the app gets from answer_question having ended
\* with ret, an exception that escaped it turned into an error
safe_answer_question(ret) ==
    IF "exception" \in DOMAIN ret
    THEN [error |-> "Failed to answer question: " \o ret.exception]
    ELSE ret

\* response.get('llm_answer', 'No answer generated')
AnswerShown(response) ==
    IF "llm_answer" \in DOMAIN response THEN response.llm_answer
    ELSE "No answer generated"

\* the chat tab handling a prompt, answer_question having returned out for
\* the chat history passed to it
ChatPromptReturns(prompt, chat_history, reply, out) ==
    /\ AnswerQuestionReturns(prompt, chat_history, reply, out)
    /\ session_messages' =
           Append(chat_history.items,
                  [role |-> "assistant",
                   content |-> AnswerShown(safe_answer_question(out.ret))])

\* ChatPrompt with the user turn appended once the agent has answered
ChatPrompt_AppendAfter(prompt, reply) ==
    /\ ~IsNone(loaded)
    /\ Len(session_messages) < 2 * MaxPrompts
    /\ LET chat_history == List(session_messages)
           out == answer_question(prompt, chat_history, reply)
       IN  /\ AnswerQuestionReturns(prompt, chat_history, reply, out)
           /\ session_messages' =
                  session_messages \o
                  <<[role |-> "user", content |-> prompt],
                    [role |-> "assistant",
                     content |-> AnswerShown(safe_answer_question(out.ret))]>>

\* the chat tab, shown once a document is loaded, on a submitted prompt: the
\* user turn is appended, the agent is asked with the session's messages as
\* chat history, and the assistant turn is appended
ChatPrompt(prompt, reply) ==
    /\ ~IsNone(loaded)
    /\ Len(session_messages) < 2 * MaxPrompts
    /\ LET chat_history ==
               List(Append(session_messages, [role |-> "user", content |-> prompt]))
       IN  ChatPromptReturns(prompt, chat_history, reply,
                             answer_question(prompt, chat_history, reply))

----------------------------------------------------------------------------
(* The files, questions, chat histories and replies of the environment.   *)

Sales ==
    DataFrame(<<"date", "amount", "qty">>, <<"object", "float64", "int64">>,
              [r \in 1..10 |->
                <<"2024-01-" \o ToString(r),
                  IF r \in {3, 8} THEN NaN ELSE ToString(r) \o ".5",
                  ToString(r)>>])

OnDisk(path, file) == [path |-> path, file |-> file]

\* the files of the agent's session: one of each variant, an empty one, and
\* one of each way a load fails
Disk ==
    { OnDisk("data/sales.csv", File("csv", Sales)),
      OnDisk("broken.csv", BadFile("Error tokenizing data")),
      OnDisk("notes.txt", File("txt", "Hello world")),
      OnDisk("scan.pdf", File("pdf", <<"", "">>)),
      OnDisk("renamed.docx", File("txt", "Hello world")),
      OnDisk("photo.v2.JPG", File("image", <<77, 97, 110>>)),
      OnDisk("missing.png", BadFile("No such file or directory")),
      OnDisk("chart.bmp", File("image", <<77, 97, 110>>)),
      OnDisk("README", File("txt", "Hello world")) }

Message(content) == [tag |-> "message", content |-> content]
Response(choices) == [choices |-> choices]

Replies ==
    { Raise("Connection error"),
      Return(Response(None)),
      Return(Response(List(<<>>))),
      Return(Response(List(<<[message |-> None]>>))),
      Return(Response(List(<<[message |-> Message(None)]>>))),
      Return(Response(List(<<[message |-> Message(Str(""))]>>))),
      Return(Response(List(<<[message |-> Message(Str("42"))],
                            [message |-> Message(Str("43"))]>>))) }

Questions == {"What is X?", "How many rows?"}

Turns == {[role |-> "user", content |-> "Hi"],
          [role |-> "assistant", content |-> "Hello"]}

SeqsUpTo(S, n) == UNION {[1..k -> S] : k \in 0..n}

ChatHistories == {None} \cup {List(items) : items \in SeqsUpTo(Turns, MaxTurns)}

\* the agent of one session: every kind of file, one question, no chat history
Next ==
    \/ \E f \in Disk : LoadDocument(f.path, f.file)
    \/ GetDataSummary
    \/ CreateVisualizations
    \/ \E reply \in {Raise("Connection error"),
                     Return(Response(List(<<>>))),
                     Return(Response(List(<<[message |-> Message(Str("42"))]>>)))} :
            AnswerQuestion("What is X?", List(<<>>), reply)

Spec == Init /\ [][Next]_vars

\* the agent's replies read: every shape of response, one question, one text file
ReplyDisk ==
    { OnDisk("notes.txt", File("txt", "Hello world")),
      OnDisk("chart.bmp", File("image", <<77, 97, 110>>)) }

NextReplies ==
    \/ \E f \in ReplyDisk : LoadDocument(f.path, f.file)
    \/ \E h \in {None, List(<<>>)}, reply \in Replies :
            AnswerQuestion("What is X?", h, reply)

SpecReplies == Init /\ [][NextReplies]_vars

\* the agent's requests built: every question and chat history, a service
\* that fails or answers
NextChat ==
    \/ \E f \in ReplyDisk : LoadDocument(f.path, f.file)
    \/ \E q \in Questions, h \in ChatHistories,
          reply \in {Raise("Connection error"),
                     Return(Response(List(<<[message |-> Message(Str("42"))]>>)))} :
            AnswerQuestion(q, h, reply)

SpecChat == Init /\ [][NextChat]_vars

\* the tables of up to MaxCols columns of every dtype mix, one row each
ColumnDtypes == {"object", "int64", "float64"}
Cell(dtype) == IF dtype = "object" THEN "x" ELSE IF dtype = "int64" THEN "1" ELSE NaN

Frames ==
    { DataFrame([i \in 1..Len(dtypes) |-> "c" \o ToString(i)],
                dtypes,
                <<[i \in 1..Len(dtypes) |-> Cell(dtypes[i])]>>) :
        dtypes \in UNION {[1..k -> ColumnDtypes] : k \in 1..MaxCols} }

\* the agent's charts planned: every table, and a text file and an image
\* loaded before and after it
NextViz ==
    \/ \E df \in Frames : LoadDocument("table.csv", File("csv", df))
    \/ LoadDocument("notes.txt", File("txt", "Hello world"))
    \/ LoadDocument("photo.png", File("image", <<77, 97, 110>>))
    \/ GetDataSummary
    \/ CreateVisualizations

SpecViz == Init /\ [][NextViz]_vars

----------------------------------------------------------------------------
(* What the claims speak of.                                               *)

Populated(v) == ~IsNone(v)
PopulatedSlots ==
    {slot \in {"data", "text_content", "image_content"} :
        Populated([data |-> data, text_content |-> text_content,
                   image_content |-> image_content][slot])}

LoadSucceeded == call.op = "load_document" /\ result.status = "success"
LoadFailedNow == call.op = "load_document" /\ result.status = "error"
ReturnedError == call.op = "answer_question" /\ "error" \in DOMAIN result

\* the summary of a store that holds the document doc and nothing else
SummaryOfDocument(doc) ==
    Summary(IF doc.slot = "data" THEN doc.value ELSE None,
            IF doc.slot = "text_content" THEN doc.value ELSE None,
            IF doc.slot = "image_content" THEN doc.value ELSE None)

SameSummary(a, b) ==
    /\ DOMAIN a = DOMAIN b
    /\ a = b

IsVizError(r, message) ==
    /\ Len(r) = 1
    /\ DOMAIN r[1] = {"error"}
    /\ r[1].error = message

\* C1: the Content Store holds at most one Document: at most one of the three
\* slots is populated, and after a successful load the populated slot is the
\* one that load wrote.
C1_AtMostOneDocument ==
    /\ Cardinality(PopulatedSlots) <= 1
    /\ LoadSucceeded => PopulatedSlots = {loaded.slot}

\* C2: once B is loaded after A, summarize returns the summary of B alone.
C2_SummaryOfLastLoad ==
    (call.op = "get_data_summary" /\ Populated(loaded))
        => SameSummary(result, SummaryOfDocument(loaded))

\* C3: a load that fails returns an error and leaves the three slots as they
\* were: a file its reader cannot read or an extension outside the supported
\* ones gives an error result, and every load that returns an error has
\* changed no slot.
ReaderKind ==
    [ext \in {".csv", ".xlsx", ".txt", ".docx", ".pdf", ".png", ".jpg", ".jpeg"} |->
        IF ext = ".csv" THEN "csv"
        ELSE IF ext = ".xlsx" THEN "xlsx"
        ELSE IF ext = ".txt" THEN "txt"
        ELSE IF ext = ".docx" THEN "docx"
        ELSE IF ext = ".pdf" THEN "pdf"
        ELSE "image"]

MustFail(f) ==
    LET ext == Lower(SplitExt(f.path))
    IN  ext \notin DOMAIN ReaderKind \/ f.file.kind # ReaderKind[ext]

C3_FailedLoadKeepsStore ==
    [][ (call'.op = "load_document") =>
            /\ (\A f \in Disk : (f.path = call'.file_path /\ MustFail(f))
                                    => result'.status = "error")
            /\ (result'.status = "error" => Store' = Store) ]_vars

C3_Witness ==
    /\ LoadFailedNow
    /\ Cardinality(PopulatedSlots) = 3

\* C4: answer_question appends exactly one record when it returns an answer
\* (the sentinel included) and none when the service call fails, so the
\* history is as long as the number of calls that returned an answer.
C4_OneRecordPerAnswer ==
    /\ [](Len(analysis_history) = answered)
    /\ [][ (call'.op = "answer_question") =>
             IF "llm_answer" \in DOMAIN result'
             THEN /\ Len(analysis_history') = Len(analysis_history) + 1
                  /\ SubSeq(analysis_history', 1, Len(analysis_history)) = analysis_history
             ELSE analysis_history' = analysis_history ]_vars

C4_Witness ==
    /\ ReturnedError
    /\ answered = MaxHistory - 1
    /\ answered > 0
    /\ analysis_history[1].answer = CouldNotParse

\* a reachable response with no choices, no message or no content
Malformed(reply) ==
    /\ ~reply.raised
    /\ LET choices == reply.value.choices
       IN  \/ IsNone(choices)
           \/ Len(choices.items) = 0
           \/ IsNone(choices.items[1].message)
           \/ IsNone(choices.items[1].message.content)
           \/ choices.items[1].message.content.s = ""

LastRecord == analysis_history[Len(analysis_history)]

SentinelAnswer(sentinel) ==
    (call.op = "answer_question" /\ Malformed(call.reply)) =>
        /\ DOMAIN result = {"llm_answer", "quantitative_answer"}
        /\ result.llm_answer = sentinel
        /\ Len(analysis_history) > 0
        /\ LastRecord.answer = sentinel

\* C5 as stated: on a response with no choices, no message or empty content,
\* answer succeeds with the answer "Could not parse response" and appends a
\* record carrying it.
C5_Original == SentinelAnswer("Could not parse response")

\* C5: on a response with no choices, no message or empty content, answer
\* succeeds with the answer "Error: Could not parse LLM response." and the
\* record appended carries that same answer.
C5_SentinelAnswer == SentinelAnswer("Error: Could not parse LLM response.")

C5_Witness ==
    /\ call.op = "answer_question"
    /\ Malformed(call.reply)
    /\ ~IsNone(call.reply.value.choices)
    /\ Len(call.reply.value.choices.items) > 0
    /\ ~IsNone(call.reply.value.choices.items[1].message)
    /\ Len(analysis_history) = MaxHistory

\* C6: the messages sent are the n turns of the history, in order with role
\* and content unchanged, then one user turn holding
\* "Context: " + context + "\nQuestion: " + question; n + 1 in all.
C6_MessageSequence ==
    (call.op = "answer_question") =>
        LET turns == IF IsNone(call.chat_history) THEN <<>> ELSE call.chat_history.items
            n == Len(turns)
            sent == request.messages
        IN  /\ Len(sent) = n + 1
            /\ \A k \in 1..n : /\ sent[k].role = turns[k].role
                               /\ sent[k].content = turns[k].content
            /\ sent[n + 1].role = "user"
            /\ sent[n + 1].content =
                   "Context: " \o Context \o "\nQuestion: " \o call.question

C6_Witness ==
    /\ call.op = "answer_question"
    /\ ~IsNone(call.chat_history)
    /\ Len(call.chat_history.items) = MaxTurns
    /\ call.chat_history.items[1].role = "assistant"
    /\ Context # ""

\* C7: while no load has succeeded the assembled context is empty and the
\* last turn answer(q, []) sends is exactly "Context: \nQuestion: " + q.
C7_EmptyContextBeforeLoad ==
    IsNone(loaded) =>
        /\ Context = ""
        /\ (call.op = "answer_question" =>
               request.messages[Len(request.messages)].content
                   = "Context: \nQuestion: " \o call.question)

C7_Witness ==
    /\ IsNone(loaded)
    /\ call.op = "answer_question"
    /\ call.chat_history = List(<<>>)
    /\ Len(request.messages) = 1

\* C8: plan_visualizations fails with NotApplicable whenever the document
\* loaded last is not tabular (none loaded, or a text or an image).
C8_NotApplicable ==
    (call.op = "create_visualizations" /\ (IsNone(loaded) \/ loaded.slot # "data"))
        => IsVizError(result, "No data loaded for visualization.")

\* the numeric columns of a table, by position
NumericPositions(df) == {i \in 1..Len(df.columns) : IsNumeric(df.dtypes[i])}
FirstNumeric(df) == CHOOSE i \in NumericPositions(df) : \A j \in NumericPositions(df) : i <= j
SecondNumeric(df) ==
    CHOOSE i \in NumericPositions(df) \ {FirstNumeric(df)} :
        \A j \in NumericPositions(df) \ {FirstNumeric(df)} : i <= j

PlannedFor(df) ==
    /\ call.op = "create_visualizations"
    /\ Populated(loaded)
    /\ loaded.slot = "data"
    /\ loaded.value = df

\* C9: one numeric column gives one histogram over it; two or more give that
\* histogram and then a scatter of the first against the second; never more
\* than two specs, and no later numeric column in any of them.
C9_FirstTwoNumericColumns ==
    \A df \in Frames : PlannedFor(df) =>
        LET k == Cardinality(NumericPositions(df))
        IN  /\ Len(result) <= 2
            /\ k = 1 =>
                 /\ Len(result) = 1
                 /\ result[1].figure.kind = "histogram"
                 /\ result[1].figure.x = df.columns[FirstNumeric(df)]
            /\ k >= 2 =>
                 /\ Len(result) = 2
                 /\ result[1].figure.kind = "histogram"
                 /\ result[1].figure.x = df.columns[FirstNumeric(df)]
                 /\ result[2].figure.kind = "scatter"
                 /\ result[2].figure.x = df.columns[FirstNumeric(df)]
                 /\ result[2].figure.y = df.columns[SecondNumeric(df)]

C9_Witness ==
    \E df \in Frames :
        /\ PlannedFor(df)
        /\ Cardinality(NumericPositions(df)) >= 3
        /\ Len(result) = 2

\* C10: a table without numeric columns gives exactly one error result, and
\* plan_visualizations never returns an empty sequence.
C10_NeverEmpty ==
    (call.op = "create_visualizations") =>
        /\ Len(result) >= 1
        /\ \A df \in Frames :
             (PlannedFor(df) /\ NumericPositions(df) = {})
                 => IsVizError(result, "No numeric columns to visualize.")

C10_Witness ==
    \E df \in Frames :
        /\ PlannedFor(df)
        /\ NumericPositions(df) = {}
        /\ Len(df.columns) > 1

IsNoDataLoaded(r) == DOMAIN r = {"error"} /\ r.error = "No data loaded."

\* C11: summarize fails with NoDataLoaded exactly while no load has succeeded:
\* in every state before the first successful load, failed and unsupported
\* loads included, and in no state after one.
C11_NoDataLoaded ==
    (call.op = "get_data_summary") => (IsNoDataLoaded(result) <=> IsNone(loaded))

C11_Witness ==
    /\ call.op = "get_data_summary"
    /\ Populated(loaded)
    /\ loaded.slot = "text_content"
    /\ loaded.value.s = ""
    /\ PopulatedSlots = {"text_content"}

IsPrefix(s, t) == Len(s) <= Len(t) /\ SubSeq(t, 1, Len(s)) = s

\* C12: the history is append-only: every step keeps the records it held, in
\* their order and unchanged, as a prefix of the new history, and load,
\* summarize and plan_visualizations leave the history as it was.
C12_AppendOnly ==
    [][ /\ IsPrefix(analysis_history, analysis_history')
        /\ (call'.op \in {"load_document", "get_data_summary", "create_visualizations"}
              => analysis_history' = analysis_history) ]_vars

C12_Witness ==
    /\ LoadSucceeded
    /\ Len(analysis_history) = MaxHistory
    /\ analysis_history[1].context # LastRecord.context
    /\ LastRecord.context # Context

\* chat histories of one or two turns, some turns lacking a key
LooseTurns == Turns \cup {[content |-> "Hi"], [role |-> "user"]}
LooseHistories == {List(items) : items \in SeqsUpTo(LooseTurns, MaxTurns)}

\* the agent handed chat histories as callers may build them
NextLoose ==
    \/ \E f \in ReplyDisk : LoadDocument(f.path, f.file)
    \/ GetDataSummary
    \/ CreateVisualizations
    \/ \E h \in LooseHistories,
          reply \in {Raise("Connection error"),
                     Return(Response(List(<<[message |-> Message(Str("42"))]>>)))} :
            AnswerQuestion("What is X?", h, reply)

SpecLoose == Init /\ [][NextLoose]_vars

\* C13: every call returns a tagged result, a success value or a structured
\* error; no exception escapes an operation.
C13_TaggedResult ==
    /\ call.op = "load_document" => DOMAIN result = {"status", "message"}
    /\ call.op = "get_data_summary" => ("type" \in DOMAIN result \/ DOMAIN result = {"error"})
    /\ call.op = "create_visualizations" => Len(result) >= 1
    /\ call.op = "answer_question" =>
          \/ DOMAIN result = {"llm_answer", "quantitative_answer"}
          \/ DOMAIN result = {"error"}

\* files named with every supported extension in lower, upper and mixed case,
\* and with extensions outside the supported ones
LoadDisk ==
    { OnDisk("a.csv", File("csv", Sales)),
      OnDisk("B.CSV", File("csv", Sales)),
      OnDisk("c.Xlsx", File("xlsx", Sales)),
      OnDisk("d.txt", File("txt", "Hello world")),
      OnDisk("E.TXT", File("txt", "Hello world")),
      OnDisk("f.DocX", File("docx", <<"Hello", "world">>)),
      OnDisk("g.PDF", File("pdf", <<"Hello", "", "world">>)),
      OnDisk("h.png", File("image", <<77, 97, 110>>)),
      OnDisk("i.JPG", File("image", <<77, 97>>)),
      OnDisk("j.JpEg", File("image", <<77>>)),
      OnDisk("k.xls", File("xlsx", Sales)),
      OnDisk("l.bmp", BadFile("No such file or directory")),
      OnDisk("m.doc", File("docx", <<"Hello", "world">>)),
      OnDisk("n", File("txt", "Hello world")),
      OnDisk("o.csv.bak", File("csv", Sales)),
      OnDisk(".csv", File("csv", Sales)),
      OnDisk("p.txt/q", File("txt", "Hello world")) }

\* the agent loading one file after another
NextLoad ==
    \/ \E f \in LoadDisk : LoadDocument(f.path, f.file)
    \/ GetDataSummary

SpecLoad == Init /\ [][NextLoad]_vars

\* the variant the claim assigns to each path of LoadDisk
VariantOf ==
    [path \in {f.path : f \in LoadDisk} |->
        IF path \in {"a.csv", "B.CSV", "c.Xlsx"} THEN "data"
        ELSE IF path \in {"d.txt", "E.TXT", "f.DocX", "g.PDF"} THEN "text_content"
        ELSE IF path \in {"h.png", "i.JPG", "j.JpEg"} THEN "image_content"
        ELSE "unsupported"]

\* C14: load dispatches on the lower-cased file extension: .csv and .xlsx load
\* as Tabular, .txt, .docx and .pdf as Text, .png, .jpg and .jpeg as Image,
\* whatever the case of the extension's letters; every other extension fails
\* as unsupported without any parser being invoked.
C14_Dispatch ==
    (call.op = "load_document" /\ call.file_path \in DOMAIN VariantOf) =>
        IF VariantOf[call.file_path] = "unsupported"
        THEN /\ result.status = "error"
             /\ result.message = "Unsupported file type."
        ELSE /\ result.status = "success"
             /\ loaded.slot = VariantOf[call.file_path]
             /\ Populated(Store[IF loaded.slot = "data" THEN 1
                                ELSE IF loaded.slot = "text_content" THEN 2 ELSE 3])

C14_Witness ==
    /\ call.op = "load_document" /\ call.file_path = "j.JpEg"
    /\ result.status = "success"
    /\ loaded.slot = "image_content"
    /\ PopulatedSlots = {"data", "text_content", "image_content"}

\* the summary of the table df taken alone
SummaryOfTable(df) == Summary(df, None, None)

\* C15: loading the same Tabular file twice and summarizing after each load
\* gives identical summaries, whatever was loaded before: the summary taken
\* while a table is the last document loaded is that of the table alone.
C15_TabularSummaryOfFileAlone ==
    (call.op = "get_data_summary" /\ Populated(loaded) /\ loaded.slot = "data")
        => /\ DOMAIN result = DOMAIN SummaryOfTable(loaded.value)
           /\ result = SummaryOfTable(loaded.value)

C15_Witness ==
    /\ call.op = "get_data_summary"
    /\ Populated(loaded) /\ loaded.slot = "data"
    /\ PopulatedSlots = {"data", "text_content", "image_content"}
    /\ result.type = "structured"
    /\ result.shape = <<1, MaxCols>>

\* a table, a text file and a file that cannot be read
PureDisk ==
    { OnDisk("data/sales.csv", File("csv", Sales)),
      OnDisk("notes.txt", File("txt", "Hello world")),
      OnDisk("broken.csv", BadFile("Error tokenizing data")) }

\* the agent summarizing and planning charts between loads and answers
NextPure ==
    \/ \E f \in PureDisk : LoadDocument(f.path, f.file)
    \/ GetDataSummary
    \/ CreateVisualizations
    \/ \E reply \in {Raise("Connection error"),
                     Return(Response(List(<<[message |-> Message(Str("42"))]>>)))} :
            AnswerQuestion("What is X?", None, reply)

SpecPure == Init /\ [][NextPure]_vars

\* C16: summarize and plan_visualizations are pure: a call of either leaves
\* the three slots and the history as they were, and what either would return
\* changes only across a successful load.
C16_Pure ==
    [][ /\ call'.op \in {"get_data_summary", "create_visualizations"}
            => /\ Store' = Store
               /\ analysis_history' = analysis_history
        /\ ~(call'.op = "load_document" /\ result'.status = "success")
            => /\ get_data_summary' = get_data_summary
               /\ create_visualizations' = create_visualizations ]_vars

C16_Witness ==
    /\ call.op = "create_visualizations"
    /\ Len(result) = 2
    /\ PopulatedSlots = {"data", "text_content"}
    /\ Len(analysis_history) = 1
    /\ get_data_summary.type = "structured"

\* the context segment of the document doc taken alone
SegmentOf(doc) ==
    ContextOf(IF doc.slot = "data" THEN doc.value ELSE None,
              IF doc.slot = "text_content" THEN doc.value ELSE None,
              IF doc.slot = "image_content" THEN doc.value ELSE None)

\* C17: after any sequence of successful loads the assembled context holds
\* exactly one segment, that of the most recently loaded document.
C17_OneSegment ==
    Populated(loaded) => Context = SegmentOf(loaded)

\* sub in s
Contains(s, sub) ==
    \E k \in 1..(Len(s) - Len(sub) + 1) : SubSeq(s, k, k + Len(sub) - 1) = sub

\* the text segment the claim puts in the context for the payload text
TextSegment(text) == "Text Content: " \o Prefix(text, ContextChars) \o "...\n"

\* C18: whenever a Text document is loaded, for every payload, the empty
\* string included, the context contains the text segment, so a store whose
\* summary is a Text summary always has a non-empty context.
C18_TextSegmentAlways ==
    /\ Populated(text_content) => Contains(Context, TextSegment(text_content.s))
    /\ ("type" \in DOMAIN get_data_summary /\ get_data_summary.type = "text")
          => Context # ""

\* C19: the record an answer appends to the history holds the question that
\* was passed, the answer that was returned, and the context embedded in the
\* final turn of the request that call sent.
C19_RecordOfCall ==
    (call.op = "answer_question" /\ "llm_answer" \in DOMAIN result) =>
        /\ Len(analysis_history) > 0
        /\ LastRecord.question = call.question
        /\ LastRecord.answer = result.llm_answer
        /\ request.messages[Len(request.messages)].content =
               "Context: " \o LastRecord.context \o "\nQuestion: " \o call.question

C19_Witness ==
    /\ call.op = "answer_question" /\ "llm_answer" \in DOMAIN result
    /\ Len(analysis_history) = MaxHistory
    /\ LastRecord.context # ""
    /\ analysis_history[1].context = ""
    /\ analysis_history[1].question # LastRecord.question
    /\ Len(request.messages) > 1

Slots == [data |-> data, text_content |-> text_content, image_content |-> image_content]

SameValue(a, b) ==
    /\ DOMAIN a = DOMAIN b
    /\ a = b

\* C20: a successful load writes only the slot of the loaded variant and
\* leaves the other two slots and the history as they were; no operation
\* returns a populated slot to empty.
C20_LoadWritesOneSlot ==
    [][ /\ (call'.op = "load_document" /\ result'.status = "success")
            => /\ \A slot \in DOMAIN Slots \ {loaded'.slot} :
                      SameValue(Slots'[slot], Slots[slot])
               /\ Populated(Slots'[loaded'.slot])
               /\ analysis_history' = analysis_history
        /\ \A slot \in DOMAIN Slots :
               Populated(Slots[slot]) => Populated(Slots'[slot]) ]_vars

C20_Witness ==
    /\ LoadSucceeded
    /\ loaded.slot = "text_content"
    /\ Cardinality(PopulatedSlots) = 3
    /\ Len(analysis_history) > 0

\* the app's session: documents uploaded and analysed, prompts submitted in
\* the chat tab, the completion service failing, answering, or answering
\* with nothing in it
NextApp ==
    \/ \E f \in PureDisk : LoadDocument(f.path, f.file)
    \/ \E prompt \in Questions,
          reply \in {Raise("Connection error"),
                     Return(Response(List(<<>>))),
                     Return(Response(List(<<[message |-> Message(Str("42"))]>>)))} :
            ChatPrompt(prompt, reply)

SpecApp == Init /\ [][NextApp]_vars

UserTurn(content) == [role |-> "user", content |-> content]

\* C21: in the app's chat flow each submitted prompt appends exactly two
\* turns to the session's messages, a user turn and then an assistant turn,
\* also when the agent returns an error; so the session always holds an even
\* number of turns, and at the n-th prompt the agent receives a history of
\* 2n-1 turns ending with the prompt and sends a request of 2n messages whose
\* last two are both user turns carrying the prompt.
C21_PromptSentTwice ==
    [][ /\ Len(session_messages) % 2 = 0
        /\ call'.op = "answer_question" =>
             LET m == Len(session_messages)
                 received == call'.chat_history.items
                 sent == request'.messages
             IN  /\ Len(session_messages') = m + 2
                 /\ SubSeq(session_messages', 1, m) = session_messages
                 /\ session_messages'[m + 1] = UserTurn(call'.question)
                 /\ session_messages'[m + 2].role = "assistant"
                 /\ ("error" \in DOMAIN result'
                        => session_messages'[m + 2].content = "No answer generated")
                 /\ ("llm_answer" \in DOMAIN result'
                        => session_messages'[m + 2].content = result'.llm_answer)
                 /\ Len(received) = m + 1
                 /\ received[m + 1] = UserTurn(call'.question)
                 /\ Len(sent) = m + 2
                 /\ sent[m + 1] = UserTurn(call'.question)
                 /\ sent[m + 2] =
                        UserTurn("Context: " \o Context \o "\nQuestion: " \o call'.question)
      ]_vars

C21_Witness ==
    /\ call.op = "answer_question"
    /\ "error" \in DOMAIN result
    /\ Len(session_messages) = 2 * MaxPrompts
    /\ session_messages[2].content = "42"
    /\ session_messages[2 * MaxPrompts].content = "No answer generated"
    /\ Len(request.messages) = 2 * MaxPrompts
    /\ Len(call.chat_history.items) = 2 * MaxPrompts - 1

====
